---- MODULE Spec2Model ----
(***************************************************************************)
(* Model of mouse_capture.cpp: the imps2_data packet layout, the           *)
(* ButtonProcess click classifier (Button / Timer) and the select-read-    *)
(* dispatch-Timer loop of main().                                          *)
(*                                                                         *)
(* Time is the wall clock in microseconds (the unit of struct timeval).    *)
(* The clock is read by gettimeofday and never runs backwards; it advances *)
(* while the process is blocked in select().                               *)
(***************************************************************************)
EXTENDS Integers, Sequences, FiniteSets, TLC

VARIABLES
    pc,          \* position of main(): "open", "configure", "select", "read",
                 \* "dispatch", "timer", "exited", "aborted"
    exit_status, \* value returned by main() once pc = "exited" (-1 before)
    fd_open,     \* mice_fd is an open descriptor
    now,         \* wall clock at its latest reading, microseconds
    data,        \* the imps2_data read buffer: 4 bytes (<<>> when out of scope)
    out,         \* lines written to stdout, oldest first
    m_btnPre,    \* ButtonProcess::m_btnPre
    m_bTimer,    \* ButtonProcess::m_bTimer
    m_tv_cur,    \* ButtonProcess::m_tv_cur
    sys,         \* the most recent system call of main(): its name, its
                 \* return value and, when that is -1, errno
    n_timer,     \* history: calls of Timer() in the current loop iteration
    n_button,    \* history: number of calls of ButtonProcess::Button so far
    last         \* history: the most recent call of Button
                 \*   type: its argument, at: clock at the call,
                 \*   mark: Len(out) before the call,
                 \*   before: mark of the call preceding it,
                 \*   idle: m_btnPre = BTN_NULL before the call, ret: its result

vars == <<pc, exit_status, fd_open, now, data, out,
          m_btnPre, m_bTimer, m_tv_cur, sys, n_timer, n_button, last>>

(***************************************************************************)
(* Program constants                                                       *)
(***************************************************************************)
BTN_LEFT == 0
BTN_RIGHT == 1
BTN_NULL == 2

\* "if (tv_interval_ms >= 300)"
TimeoutMs == 300

\* sizeof(imps2_data): one flag byte and three signed chars, packed
SizeofData == 4

\* "tv.tv_usec = 20000;": the timeout of select, microseconds
SelectTimeoutUsec == 20000

(***************************************************************************)
(* Bounds of the model                                                     *)
(***************************************************************************)
\* the process is followed until it has written MaxOut lines
MaxOut == 3

\* Clock readings the environment can produce (microseconds).  They place
\* an arming instant with a sub-millisecond part (700.6 ms) against later
\* instants 20 ms, 298.8 ms, 299.4 ms, 300 ms, 318.8 ms, 320 ms and 600 ms
\* after it, across a tv_sec boundary.
Times ==
    {700600, 720600, 999400, 1000000, 1000600, 1019400, 1020600, 1300600}

\* full-size reports delivered by the device (byte 0 has bit 3 set, as
\* the PS/2 protocol and mousedev do)
Packets ==
    { <<9, 0, 0, 0>>,       \* left
      <<10, 0, 0, 0>>,      \* right
      <<12, 0, 0, 0>>,      \* middle
      <<11, 0, 0, 0>>,      \* left + right
      <<14, 0, 0, 0>>,      \* right + middle
      <<8, 0, 0, 0>>,       \* no button (release)
      <<8, 0, 0, 1>>,       \* wheel z = +1
      <<8, 0, 0, 255>>,     \* wheel z = -1
      <<9, 0, 0, 1>>,       \* wheel z = +1 with left set
      <<26, 251, 0, 255>>,  \* wheel z = -1 with right set, x = -5
      <<9, 5, 0, 0>>,       \* left with x = +5
      <<42, 0, 253, 0>>,    \* right with y = -3
      <<8, 5, 0, 0>> }      \* motion only

\* reads shorter than sizeof(data): the 1-byte ACK, a 3-byte legacy report
ShortReads == { <<250>>, <<9, 0, 0>> }

\* content of the buffer before the first read of a drain (indeterminate)
Indeterminate == { <<0, 0, 0, 0>>, <<255, 255, 255, 255>> }

NoData == <<>>

(***************************************************************************)
(* struct timeval and the clock                                            *)
(***************************************************************************)
gettimeofday(t) == [tv_sec |-> t \div 1000000, tv_usec |-> t % 1000000]

\* variant: the seconds are left out
ToMs_NoSec(tv) == tv.tv_usec \div 1000

\* "tv.tv_sec*1000 + tv.tv_usec/1000"
ToMs(tv) == tv.tv_sec * 1000 + (tv.tv_usec \div 1000)

(***************************************************************************)
(* imps2_data: decoding of the 4-byte buffer                               *)
(***************************************************************************)
Bit(b, k) == (b \div (2 ^ k)) % 2

SignedChar(b) == IF b >= 128 THEN b - 256 ELSE b

\* variant: the left flag counts only when the right flag is clear
btn_left_Alone(d) == Bit(d[1], 0) = 1 /\ Bit(d[1], 1) = 0

btn_left(d) == Bit(d[1], 0) = 1
btn_right(d) == Bit(d[1], 1) = 1

\* variant: the middle flag read at the position of the right flag
btn_middle_WrongBit(d) == Bit(d[1], 1) = 1

btn_middle(d) == Bit(d[1], 2) = 1
X(d) == SignedChar(d[2])
Y(d) == SignedChar(d[3])
Z(d) == SignedChar(d[4])

(***************************************************************************)
(* ButtonProcess                                                           *)
(***************************************************************************)
Self == [m_btnPre |-> m_btnPre, m_bTimer |-> m_bTimer, m_tv_cur |-> m_tv_cur]

ButtonProcess ==
    [m_btnPre |-> BTN_NULL, m_bTimer |-> FALSE,
     m_tv_cur |-> [tv_sec |-> 0, tv_usec |-> 0]]

EnableTimer(self, t) ==
    [self EXCEPT !.m_bTimer = TRUE, !.m_tv_cur = gettimeofday(t)]

DisableTimer(self) == [self EXCEPT !.m_bTimer = FALSE]

\* variant: Timer() does not look at m_bTimer
IsTimerEnable_Always(self) == TRUE

IsTimerEnable(self) == self.m_bTimer

\* variant: the first press is saved without EnableTimer()
ButtonArm_NoTimer(self, type, t) ==
    [self |-> [self EXCEPT !.m_btnPre = type],
     printed |-> <<>>, ret |-> TRUE]

\* Button, branch "m_btnPre == BTN_NULL": save btn, wait timeout
ButtonArm(self, type, t) ==
    [self |-> EnableTimer([self EXCEPT !.m_btnPre = type], t),
     printed |-> <<>>, ret |-> TRUE]

\* variant: the quit branch forgets to reset the classifier
ButtonQuit_NoReset(self) ==
    [self |-> self, printed |-> <<"q">>, ret |-> FALSE]

\* Button, branch "m_btnPre != type": left and right, quit
ButtonQuit(self) ==
    [self |-> DisableTimer([self EXCEPT !.m_btnPre = BTN_NULL]),
     printed |-> <<"q">>, ret |-> FALSE]

\* variant: the double-click branch forgets DisableTimer()
ButtonDouble_KeepTimer(self) ==
    [self |-> [self EXCEPT !.m_btnPre = BTN_NULL],
     printed |-> IF self.m_btnPre = BTN_LEFT THEN <<"z">> ELSE <<"x">>,
     ret |-> TRUE]

\* variant: the double click leaves the button pending
ButtonDouble_StayPending(self) ==
    [self |-> self,
     printed |-> IF self.m_btnPre = BTN_LEFT THEN <<"z">> ELSE <<"x">>,
     ret |-> TRUE]

\* Button, last branch: the pending button again, double click
ButtonDouble(self) ==
    [self |-> DisableTimer([self EXCEPT !.m_btnPre = BTN_NULL]),
     printed |-> IF self.m_btnPre = BTN_LEFT THEN <<"z">> ELSE <<"x">>,
     ret |-> TRUE]

Button(self, type, t) ==
    IF self.m_btnPre = BTN_NULL THEN ButtonArm(self, type, t)
    ELSE IF self.m_btnPre # type THEN ButtonQuit(self)
    ELSE ButtonDouble(self)

\* variant: the comparison is strict
Expired_Strict(tv_interval_ms) == tv_interval_ms > TimeoutMs

\* variant: the threshold lost a digit
Expired_Early(tv_interval_ms) == tv_interval_ms >= 30

\* "if (tv_interval_ms >= 300)"
Expired(tv_interval_ms) == tv_interval_ms >= TimeoutMs

\* Timer, inside "if (tv_interval_ms >= 300)"; asserted is the value of
\* assert(m_btnPre != BTN_NULL)
TimerFire(self) ==
    [self |-> [DisableTimer(self) EXCEPT !.m_btnPre = BTN_NULL],
     printed |-> IF self.m_btnPre = BTN_LEFT THEN <<"<">> ELSE <<">">>,
     asserted |-> self.m_btnPre # BTN_NULL]

Timer(self, t) ==
    IF IsTimerEnable(self)
       /\ Expired(ToMs(gettimeofday(t)) - ToMs(self.m_tv_cur))
    THEN TimerFire(self)
    ELSE [self |-> self, printed |-> <<>>, asserted |-> TRUE]

(***************************************************************************)
(* main(): dispatch of one full-size report                                *)
(***************************************************************************)
\* variant: only the wheel delta is looked at
IsButtonPacket_ZOnly(d) == Z(d) = 0

\* variant: the wheel delta is not looked at
IsButtonPacket_NoZ(d) == X(d) = 0 /\ Y(d) = 0

\* "if (data.z == 0 && data.x == 0 && data.y == 0)"
IsButtonPacket(d) == Z(d) = 0 /\ X(d) = 0 /\ Y(d) = 0

\* variant: the two directions are exchanged
WheelLine_Swapped(z) == IF z > 0 THEN "0" ELSE "9"

\* "if (data.z > 0) printf("9\n") else printf("0\n")"
WheelLine(z) == IF z > 0 THEN "9" ELSE "0"

\* variant: the result of Button is not looked at
QuitRequested_Never(ret) == FALSE

\* "if (!btnProcess.Button(...))"
QuitRequested(ret) == ~ret

(***************************************************************************)
(* Initial state: before open(); ButtonProcess is constructed later but    *)
(* holds its constructor's values from then on.                            *)
(***************************************************************************)
Init ==
    /\ pc = "open"
    /\ exit_status = -1
    /\ fd_open = FALSE
    /\ now \in Times
    /\ data = NoData
    /\ out = <<>>
    /\ m_btnPre = ButtonProcess.m_btnPre
    /\ m_bTimer = ButtonProcess.m_bTimer
    /\ m_tv_cur = ButtonProcess.m_tv_cur
    /\ sys = [call |-> "none", ret |-> 0, errno |-> "none"]
    /\ n_timer = 0
    /\ n_button = 0
    /\ last = [type |-> BTN_NULL, at |-> 0, mark |-> 0, before |-> 0,
               idle |-> FALSE, ret |-> TRUE]

Observed == Len(out) < MaxOut

classifier == <<m_btnPre, m_bTimer, m_tv_cur>>
history == <<n_button, last>>

Return(status) ==
    /\ pc' = "exited"
    /\ exit_status' = status

Sys(call, ret, errno) == [call |-> call, ret |-> ret, errno |-> errno]

(***************************************************************************)
(* main(): start-up                                                        *)
(***************************************************************************)
\* open("/dev/input/mice", O_RDWR|O_NONBLOCK)
Open ==
    /\ pc = "open"
    /\ Observed
    /\ \/ /\ fd_open' = TRUE
          /\ sys' = Sys("open", 3, "none")
          /\ pc' = "configure"
          /\ UNCHANGED exit_status
       \/ /\ sys' = Sys("open", -1, "ENOENT")   \* mice_fd == -1
          /\ Return(1)
          /\ UNCHANGED fd_open
    /\ UNCHANGED <<now, data, out, classifier, n_timer, history>>

\* write(mice_fd, mousedev_imps_seq, ...)
Configure ==
    /\ pc = "configure"
    /\ Observed
    /\ \/ /\ sys' = Sys("write", 6, "none")
          /\ pc' = "select"
          /\ UNCHANGED exit_status
       \/ /\ sys' = Sys("write", -1, "EIO")     \* nRet < 0
          /\ Return(1)
    /\ UNCHANGED <<fd_open, now, data, out, classifier, n_timer, history>>

(***************************************************************************)
(* main(): one select().  T is the set of clock readings at which the      *)
(* call can return.                                                        *)
(***************************************************************************)
\* variant: Timer() is reached only through the drain
AfterSelect_SkipTimer(ready) == IF ready THEN "read" ELSE "select"

\* "if (FD_ISSET(mice_fd, &fdset))": the drain, or straight to Timer()
AfterSelect(ready) == IF ready THEN "read" ELSE "timer"

\* the clock readings of T the process can see next: time passes in select
\* and also between two calls (a read, a blocked fflush(stdout), the process
\* not being scheduled)
Clock(T) == {t \in T : t >= now}

\* select returns 0 only after its timeout: the timeout is the least time it
\* sleeps, the kernel adds timer slack and scheduling delay
Expiry(T) == {t \in T : t - now > SelectTimeoutUsec}

\* select returns at a clock reading of T: early with input ready or
\* interrupted, or with its timeout expired
Select(T) ==
    /\ pc = "select"
    /\ Observed
    /\ n_timer' = 0                            \* a new iteration begins
    /\ \/ /\ now' \in Clock(T)
          /\ sys' = Sys("select", -1, "EINTR") \* ret < 0
          /\ Return(1)
          /\ UNCHANGED data
       \/ \E ready \in BOOLEAN :
             /\ now' \in (IF ready THEN Clock(T) ELSE Expiry(T))
             /\ sys' = Sys("select", IF ready THEN 1 ELSE 0, "none")
             /\ pc' = AfterSelect(ready)
             /\ IF ready
                THEN data' \in Indeterminate  \* "imps2_data data;"
                ELSE UNCHANGED data
             /\ UNCHANGED exit_status
    /\ UNCHANGED <<fd_open, out, classifier, history>>

(***************************************************************************)
(* main(): one read() of the drain loop                                    *)
(***************************************************************************)
\* the first Len(bytes) bytes of the buffer are overwritten
Overlay(buf, bytes) ==
    [i \in 1..Len(buf) |-> IF i <= Len(bytes) THEN bytes[i] ELSE buf[i]]

\* variant: every errno ends the process
IsWouldBlock_Never(errno) == FALSE

\* "if (errno != EAGAIN) return 1; break;"
IsWouldBlock(errno) == errno = "EAGAIN"

\* variant: whatever was read is taken for a report
IsFullReport_Any(nLen) == nLen > 0

\* variant: a legacy 3-byte report is let through as well
IsFullReport_AtLeast3(nLen) == nLen >= 3

\* "if (nLen == sizeof(data))"
IsFullReport(nLen) == nLen = SizeofData

\* one read() delivering one of `shorts` or one of `reports`
ReadOf(shorts, reports) ==
    /\ pc = "read"
    /\ Observed
    /\ \/ /\ sys' = Sys("read", 0, "none")     \* nLen == 0
          /\ Return(1)
          /\ UNCHANGED data
       \/ \E errno \in {"EAGAIN", "EIO"} :     \* nLen == -1
             /\ sys' = Sys("read", -1, errno)
             /\ IF IsWouldBlock(errno)
                THEN /\ pc' = "timer"           \* break
                     /\ data' = NoData
                     /\ UNCHANGED exit_status
                ELSE /\ Return(1)
                     /\ UNCHANGED data
       \/ \E bytes \in shorts \cup reports :    \* nLen > 0
             /\ sys' = Sys("read", Len(bytes), "none")
             /\ data' = Overlay(data, bytes)
             /\ pc' = IF IsFullReport(Len(bytes)) THEN "dispatch" ELSE "read"
             /\ UNCHANGED exit_status
    /\ UNCHANGED <<fd_open, now, out, classifier, n_timer, history>>

Read == ReadOf(ShortReads, Packets)

(***************************************************************************)
(* main(): the body of "if (nLen == sizeof(data))"                         *)
(***************************************************************************)
\* btnProcess.Button(type) called when the clock stands at t; EnableTimer()
\* reads the clock inside the call
CallButton(type, t) ==
    LET r == Button(Self, type, t) IN
    /\ now' = t
    /\ m_btnPre' = r.self.m_btnPre
    /\ m_bTimer' = r.self.m_bTimer
    /\ m_tv_cur' = r.self.m_tv_cur
    /\ out' = out \o r.printed
    /\ n_button' = n_button + 1
    /\ last' = [type |-> type, at |-> t, mark |-> Len(out),
                before |-> last.mark,
                idle |-> m_btnPre = BTN_NULL, ret |-> r.ret]
    /\ IF QuitRequested(r.ret)
       THEN /\ fd_open' = FALSE                \* close(mice_fd); return 0
            /\ Return(0)
       ELSE /\ pc' = "read"
            /\ UNCHANGED <<fd_open, exit_status>>

Write(line) ==
    /\ out' = Append(out, line)
    /\ pc' = "read"
    /\ UNCHANGED <<fd_open, exit_status, now, classifier, history>>

Ignore ==
    /\ pc' = "read"
    /\ UNCHANGED <<fd_open, exit_status, now, out, classifier, history>>

Dispatch(T) ==
    /\ pc = "dispatch"
    /\ Observed
    /\ IF IsButtonPacket(data)
       THEN IF btn_left(data)
            THEN \E t \in Clock(T) : CallButton(BTN_LEFT, t)
            ELSE IF btn_right(data)
            THEN \E t \in Clock(T) : CallButton(BTN_RIGHT, t)
            ELSE IF btn_middle(data) THEN Write("p")
            ELSE Ignore
       ELSE IF Z(data) # 0 THEN Write(WheelLine(Z(data)))
            ELSE Ignore
    /\ UNCHANGED <<data, sys, n_timer>>

(***************************************************************************)
(* main(): "btnProcess.Timer();" at the end of the iteration               *)
(***************************************************************************)
\* Timer() reads the clock itself, inside "if (IsTimerEnable())"
TimerAt(t) ==
    LET r == Timer(Self, t) IN
    /\ now' = t
    /\ IF r.asserted
       THEN /\ m_btnPre' = r.self.m_btnPre
            /\ m_bTimer' = r.self.m_bTimer
            /\ m_tv_cur' = r.self.m_tv_cur
            /\ out' = out \o r.printed
            /\ pc' = "select"
       ELSE /\ pc' = "aborted"                 \* assert() fails
            /\ UNCHANGED <<out, classifier>>

CallTimer(T) ==
    /\ pc = "timer"
    /\ Observed
    /\ IF IsTimerEnable(Self)
       THEN \E t \in Clock(T) : TimerAt(t)
       ELSE TimerAt(now)
    /\ n_timer' = n_timer + 1
    /\ UNCHANGED <<exit_status, fd_open, data, sys, history>>

Next ==
    \/ Open
    \/ Configure
    \/ Select(Times)
    \/ Read
    \/ Dispatch(Times)
    \/ CallTimer(Times)

Spec == Init /\ [][Next]_vars

(***************************************************************************)
(* Vocabulary of the properties                                            *)
(***************************************************************************)
Idle == m_btnPre = BTN_NULL /\ m_bTimer = FALSE

IsClick(line) == line \in {"<", ">", "z", "x", "q"}
Clicks(lines) == SelectSeq(lines, IsClick)
Since(lines, mark) == SubSeq(lines, mark + 1, Len(lines))

SingleLine(type) == IF type = BTN_LEFT THEN "<" ELSE ">"
DoubleLine(type) == IF type = BTN_LEFT THEN "z" ELSE "x"

\* a struct timeval in microseconds, and a clock reading in whole milliseconds
Usec(tv) == tv.tv_sec * 1000000 + tv.tv_usec
Millis(t) == t \div 1000
WindowUsec == TimeoutMs * 1000

\* the steps of main() that call into the classifier or dispatch a report
ButtonCalled == n_button' = n_button + 1
TimerCalled == pc = "timer" /\ pc' # "timer"
Dispatched == pc = "dispatch" /\ pc' # "dispatch"

\* the last call of Button was the first press of an episode (made while
\* Idle), and the call made in this step presses the same button again
SecondPress == ButtonCalled /\ n_button > 0 /\ last.idle /\ last'.type = last.type
DoubleClicked ==
    /\ Idle'
    /\ Clicks(Since(out', last.mark)) = <<DoubleLine(last.type)>>

(***************************************************************************)
(* C1: a button pressed once from Idle and not followed by another         *)
(* left/right press: every Timer() check made 300 ms or more after the     *)
(* press leaves the classifier Idle with exactly one click line written    *)
(* since the press, the single click of that button.                       *)
(***************************************************************************)
C1_SingleClickAfterTimeout ==
    [][ (TimerCalled /\ n_button > 0 /\ last.idle /\ now' >= last.at + WindowUsec)
        => /\ pc' = "select"
           /\ Idle'
           /\ Clicks(Since(out', last.mark)) = <<SingleLine(last.type)>> ]_vars

C1_Witness ==
    /\ pc = "select"
    /\ n_button = 1
    /\ last.idle
    /\ now >= last.at + WindowUsec
    /\ Idle
    /\ out = <<SingleLine(last.type)>>

(***************************************************************************)
(* C2 as stated: two presses of B less than 300 ms apart, the first made   *)
(* from Idle, yield exactly the double click of B and leave the classifier *)
(* Idle, whatever Timer() checks ran between them.                         *)
(***************************************************************************)
C2_Original ==
    [][ (SecondPress /\ last'.at - last.at < WindowUsec) => DoubleClicked ]_vars

(***************************************************************************)
(* C2 amended: the same, for two presses whose clock readings, each        *)
(* truncated to whole milliseconds as Timer() does, differ by less than    *)
(* 300.                                                                    *)
(***************************************************************************)
C2_DoubleClickWithinWindow ==
    [][ (SecondPress /\ Millis(last'.at) - Millis(last.at) < TimeoutMs)
        => DoubleClicked ]_vars

C2_Witness ==
    /\ n_button = 2
    /\ ~last.idle
    /\ last.at > Usec(m_tv_cur)
    /\ Millis(last.at) - Millis(Usec(m_tv_cur)) < TimeoutMs
    /\ Idle
    /\ out = <<DoubleLine(last.type)>>

(***************************************************************************)
(* C3: Button(B2) called while B1 # B2 is pending writes exactly "q" and   *)
(* nothing else, returns false and leaves the classifier Idle, whatever    *)
(* the time since B1 was armed.                                            *)
(***************************************************************************)
C3_OppositeButtonQuits ==
    [][ (ButtonCalled /\ m_btnPre # BTN_NULL /\ last'.type # m_btnPre)
        => /\ out' = Append(out, "q")
           /\ last'.ret = FALSE
           /\ Idle' ]_vars

\* the opposite button arrived 300 ms or more after the arming
C3_Witness ==
    /\ n_button = 2
    /\ last.ret = FALSE
    /\ last.at >= Usec(m_tv_cur) + WindowUsec
    /\ Idle
    /\ out = <<"q">>

(***************************************************************************)
(* C4: once "q" has been written the process has exited with status 0 and  *)
(* closed the device; "q" is the last line of the output and occurs once.  *)
(* (No action of main() is enabled once it has exited.)                    *)
(***************************************************************************)
HasQuit == \E i \in 1..Len(out) : out[i] = "q"

C4_QuitTerminates ==
    HasQuit =>
        /\ pc = "exited"
        /\ exit_status = 0
        /\ fd_open = FALSE
        /\ out[Len(out)] = "q"
        /\ Cardinality({i \in 1..Len(out) : out[i] = "q"}) = 1

\* the quit gesture in the middle of a drain, after other output
C4_Witness ==
    /\ HasQuit
    /\ pc = "exited"
    /\ exit_status = 0
    /\ Len(out) > 1

(***************************************************************************)
(* C5: in every state an armed deadline has a pending button, and every    *)
(* step that writes a click line (single, double, quit) ends Idle.         *)
(***************************************************************************)
Decided == Len(out') = Len(out) + 1 /\ IsClick(out'[Len(out')])

C5_StateInvariant ==
    [][ /\ m_bTimer => m_btnPre # BTN_NULL
        /\ m_bTimer' => m_btnPre' # BTN_NULL
        /\ Decided => Idle' ]_vars

\* Idle again after a single click and a double click
C5_Witness ==
    /\ Idle
    /\ \E i, j \in 1..Len(out) : out[i] \in {"<", ">"} /\ out[j] \in {"z", "x"}

(***************************************************************************)
(* The report as the wire format defines it: byte 0 bit 0 = left,          *)
(* bit 1 = right, bit 2 = middle; bytes 1..3 two's-complement x, y, z.     *)
(***************************************************************************)
Wire(byte) == IF byte > 127 THEN byte - 256 ELSE byte
WireLeft(d) == d[1] % 2 = 1
WireRight(d) == (d[1] \div 2) % 2 = 1
WireMiddle(d) == (d[1] \div 4) % 2 = 1
WireX(d) == Wire(d[2])
WireY(d) == Wire(d[3])
WireZ(d) == Wire(d[4])

\* lines written between the last call of Button and now
Between(lines) == {out[i] : i \in (last.mark + 1)..Len(out)} \cap lines

(***************************************************************************)
(* C6 as stated: dispatching a report with z # 0 leaves m_btnPre, m_bTimer *)
(* and m_tv_cur unchanged whatever its button bits; and two presses of B   *)
(* less than 300 ms apart with wheel reports dispatched between them yield *)
(* the double click of B.                                                  *)
(***************************************************************************)
WheelFrame == (Dispatched /\ WireZ(data) # 0) => UNCHANGED classifier

C6_Original ==
    [][ /\ WheelFrame
        /\ (SecondPress /\ Between({"9", "0"}) # {}
               /\ last'.at - last.at < WindowUsec) => DoubleClicked ]_vars

(***************************************************************************)
(* C6 amended: the same, the two presses being less than 300 apart in      *)
(* clock readings truncated to whole milliseconds.                         *)
(***************************************************************************)
C6_WheelLeavesClassifier ==
    [][ /\ WheelFrame
        /\ (SecondPress /\ Between({"9", "0"}) # {}
               /\ Millis(last'.at) - Millis(last.at) < TimeoutMs)
           => DoubleClicked ]_vars

\* a double click whose two presses have a wheel line between them
C6_Witness ==
    /\ n_button >= 2
    /\ ~last.idle
    /\ Idle
    /\ Len(out) = last.mark + 1
    /\ out[Len(out)] \in {"z", "x"}
    /\ \E i \in (last.before + 1)..last.mark : out[i] \in {"9", "0"}

(***************************************************************************)
(* C7: a report with only the middle button set and x = y = z = 0 writes   *)
(* exactly "p", Idle or pending, without a call of Button and without      *)
(* changing m_btnPre, m_bTimer, m_tv_cur; with "p" written between them,   *)
(* two presses of B inside the window still yield the double click, and a  *)
(* lone press is still reported as a single click by the first Timer()     *)
(* check 300 ms after it.                                                  *)
(***************************************************************************)
MiddleOnly(d) ==
    /\ WireMiddle(d) /\ ~WireLeft(d) /\ ~WireRight(d)
    /\ WireX(d) = 0 /\ WireY(d) = 0 /\ WireZ(d) = 0

C7_MiddlePause ==
    [][ /\ (Dispatched /\ MiddleOnly(data))
           => /\ out' = Append(out, "p")
              /\ pc' = "read"
              /\ n_button' = n_button
              /\ UNCHANGED classifier
        /\ (SecondPress /\ Between({"p"}) # {}
               /\ Millis(last'.at) - Millis(last.at) < TimeoutMs)
           => DoubleClicked
        /\ (TimerCalled /\ n_button > 0 /\ last.idle /\ Between({"p"}) # {}
               /\ now' >= last.at + WindowUsec)
           => /\ Idle'
              /\ Clicks(Since(out', last.mark)) = <<SingleLine(last.type)>>
      ]_vars

\* "p" was written while a button was pending and the deadline is unchanged
C7_Witness ==
    /\ pc = "read"
    /\ MiddleOnly(data)
    /\ m_btnPre # BTN_NULL
    /\ m_bTimer
    /\ Usec(m_tv_cur) = last.at
    /\ Len(out) = last.mark + 1
    /\ out[Len(out)] = "p"

(***************************************************************************)
(* C8: a full-size report with z > 0 writes exactly "9", one with z < 0    *)
(* exactly "0", whatever its button bits, x and y; Button is not called.   *)
(***************************************************************************)
C8_WheelOutput ==
    [][ /\ (Dispatched /\ WireZ(data) > 0)
           => (out' = Append(out, "9") /\ n_button' = n_button /\ pc' = "read")
        /\ (Dispatched /\ WireZ(data) < 0)
           => (out' = Append(out, "0") /\ n_button' = n_button /\ pc' = "read")
      ]_vars

\* wheel up, right button set, x # 0, while the left button is pending
C8_Witness ==
    /\ pc = "read"
    /\ Len(data) = SizeofData
    /\ WireZ(data) < 0 /\ WireRight(data) /\ WireX(data) # 0
    /\ m_btnPre = BTN_LEFT
    /\ Len(out) > 0
    /\ out[Len(out)] = "0"

(***************************************************************************)
(* C9 as stated: for a full-size report with z = 0, left set means         *)
(* Button(BTN_LEFT) is called, otherwise right set means                   *)
(* Button(BTN_RIGHT) is called, for all x and y.                           *)
(***************************************************************************)
CallsButton(type) == ButtonCalled /\ last'.type = type

ButtonDispatch(d) ==
    /\ WireLeft(d) => CallsButton(BTN_LEFT)
    /\ (~WireLeft(d) /\ WireRight(d)) => CallsButton(BTN_RIGHT)

C9_Original ==
    [][ (Dispatched /\ WireZ(data) = 0) => ButtonDispatch(data) ]_vars

(***************************************************************************)
(* C9 amended: that holds for the reports with x = y = z = 0; a report     *)
(* with z = 0 and x # 0 or y # 0 never reaches Button, writes nothing and  *)
(* changes no classifier state, whatever its button bits.                  *)
(***************************************************************************)
C9_ButtonDispatchWithoutMotion ==
    [][ /\ (Dispatched /\ WireZ(data) = 0 /\ WireX(data) = 0 /\ WireY(data) = 0)
           => ButtonDispatch(data)
        /\ (Dispatched /\ WireZ(data) = 0 /\ (WireX(data) # 0 \/ WireY(data) # 0))
           => /\ n_button' = n_button
              /\ pc' = "read"
              /\ UNCHANGED <<out, classifier>> ]_vars

\* a left report with x # 0 has been dispatched and no Button call was made;
\* a right press without motion has been passed on before
C9_Witness ==
    /\ pc = "read"
    /\ Len(data) = SizeofData
    /\ WireLeft(data) /\ WireZ(data) = 0 /\ WireX(data) # 0
    /\ n_button = 1
    /\ last.type = BTN_RIGHT
    /\ m_btnPre = BTN_RIGHT

(***************************************************************************)
(* C10: a Timer() call made while the classifier is Idle writes nothing,   *)
(* changes no classifier state and returns, at any clock value.            *)
(***************************************************************************)
C10_TimerIdleNoOp ==
    [][ (TimerCalled /\ m_btnPre = BTN_NULL)
        => /\ pc' = "select"
           /\ UNCHANGED <<out, classifier>> ]_vars

\* Timer() has run while Idle, 300 ms and more after the last arming
C10_Witness ==
    /\ pc = "select"
    /\ Idle
    /\ out = <<"z">>
    /\ now >= Usec(m_tv_cur) + WindowUsec

(***************************************************************************)
(* Results of the system calls, as main() tests them                       *)
(***************************************************************************)
OpenFailed == sys.call = "open" /\ sys.ret = -1
WriteFailed == sys.call = "write" /\ sys.ret < 0
SelectFailed == sys.call = "select" /\ sys.ret < 0
EndOfFile == sys.call = "read" /\ sys.ret = 0
ReadWouldBlock == sys.call = "read" /\ sys.ret = -1 /\ sys.errno = "EAGAIN"
ReadFailed == sys.call = "read" /\ sys.ret = -1 /\ sys.errno # "EAGAIN"
Failure == OpenFailed \/ WriteFailed \/ SelectFailed \/ EndOfFile \/ ReadFailed

\* the step returns from a system call (every step taken at these positions)
Returned == pc \in {"open", "configure", "select", "read"}

(***************************************************************************)
(* C11: main() returns 0 exactly in the step that writes "q"; a failed     *)
(* open, write or select, a zero-byte read and a read error other than     *)
(* EAGAIN return 1 in the same step, without output; a read that would     *)
(* block only ends the drain; no other step ends the process.              *)
(***************************************************************************)
C11_ExitStatus ==
    [][ /\ (pc' = "exited" /\ exit_status' = 0)
           <=> (Len(out') = Len(out) + 1 /\ out'[Len(out')] = "q")
        /\ Returned
           => /\ Failure' <=> (pc' = "exited" /\ exit_status' = 1)
              /\ Failure' => UNCHANGED <<out, classifier, history>>
              /\ ReadWouldBlock' => pc' = "timer"
        /\ (pc' = "exited") => (exit_status' = 0 \/ Failure')
        /\ pc' # "aborted" ]_vars

\* end of file met in a drain, after output and with a button pending
C11_Witness ==
    /\ pc = "exited"
    /\ exit_status = 1
    /\ EndOfFile
    /\ Len(out) > 0
    /\ m_btnPre # BTN_NULL

(***************************************************************************)
(* C12: a read of 1..3 bytes produces no output, changes no classifier     *)
(* state, does not end the process and is not dispatched; the report that  *)
(* is dispatched is always the 4 bytes of one later read, none of them     *)
(* left over from a short read.                                            *)
(***************************************************************************)
ShortRead == pc = "read" /\ sys'.call = "read" /\ sys'.ret > 0 /\ sys'.ret < SizeofData

C12_ShortReadAbsent ==
    [][ /\ ShortRead
           => /\ pc' = "read"
              /\ UNCHANGED <<out, classifier, history, exit_status, fd_open>>
        /\ pc' = "dispatch"
           => /\ sys'.call = "read" /\ sys'.ret = SizeofData
              /\ data' \in Packets ]_vars

\* a 3-byte read over an older report, a button pending: the buffer holds
\* bytes of two reads
C12_Witness ==
    /\ pc = "read"
    /\ sys.call = "read" /\ sys.ret = 3
    /\ data \notin Packets
    /\ data[4] = 255
    /\ m_btnPre # BTN_NULL
    /\ Len(out) > 0

(***************************************************************************)
(* C13 as stated: a 3-byte report is decoded (z = 0) and dispatched like   *)
(* any other: with left set and x = y = 0 it reaches the classifier as a   *)
(* Left press.                                                             *)
(***************************************************************************)
LegacyLeftRead ==
    /\ pc = "read"
    /\ sys'.call = "read" /\ sys'.ret = 3
    /\ WireLeft(data') /\ WireX(data') = 0 /\ WireY(data') = 0

C13_Original == [][ LegacyLeftRead => pc' = "dispatch" ]_vars

(***************************************************************************)
(* C13 amended: the report size is fixed at 4 bytes.  A 3-byte read is     *)
(* neither decoded nor dispatched: with left set and x = y = 0 it reaches  *)
(* no call of Button and writes nothing; every report that is dispatched,  *)
(* and every call of Button, comes from a read of exactly 4 bytes.         *)
(***************************************************************************)
C13_ThreeBytesNotDispatched ==
    [][ /\ LegacyLeftRead
           => /\ pc' = "read"
              /\ UNCHANGED <<out, classifier, history>>
        /\ (Dispatched \/ ButtonCalled)
           => /\ sys.call = "read" /\ sys.ret = SizeofData
              /\ Len(data) = SizeofData ]_vars

\* a 3-byte left report has been read from Idle and no press was registered
C13_Witness ==
    /\ pc = "read"
    /\ sys.call = "read" /\ sys.ret = 3
    /\ WireLeft(data) /\ WireX(data) = 0 /\ WireY(data) = 0 /\ WireZ(data) = 0
    /\ Idle
    /\ n_button = 0
    /\ out = <<>>

(***************************************************************************)
(* C14: with a button B pending, Timer() writes the single click of B and  *)
(* resets to Idle exactly when the difference of the two clock readings in *)
(* whole milliseconds is 300 or more; at 299 or less it writes nothing and *)
(* changes nothing.                                                        *)
(***************************************************************************)
IntervalMs == Millis(now) - Millis(Usec(m_tv_cur))

\* the same, for the clock as Timer() reads it in this step
ReadingMs == Millis(now') - Millis(Usec(m_tv_cur))

C14_ThresholdExact ==
    [][ (TimerCalled /\ m_btnPre # BTN_NULL)
        => /\ pc' = "select"
           /\ IF ReadingMs >= 300
              THEN out' = Append(out, SingleLine(m_btnPre)) /\ Idle'
              ELSE UNCHANGED <<out, classifier>> ]_vars

\* fired at a difference of exactly 300, less than 300 ms of real time
\* after the arming
C14_Witness ==
    /\ pc = "select"
    /\ n_timer = 1
    /\ n_button = 1
    /\ IntervalMs = 300
    /\ now - last.at < WindowUsec
    /\ Idle
    /\ out = <<SingleLine(last.type)>>

(***************************************************************************)
(* C15: in every loop iteration that does not return, Timer() is called    *)
(* exactly once, after every report read in that iteration has been        *)
(* dispatched, both when select reported input (the drain ended with       *)
(* EAGAIN) and when it timed out; a call of Button made in an iteration    *)
(* precedes that iteration's call of Timer.                                *)
(***************************************************************************)
SelectTimedOut == sys.call = "select" /\ sys.ret = 0
FirstIteration == sys.call = "write"

C15_TimerOncePerIteration ==
    [][ /\ TimerCalled
           => /\ n_timer = 0 /\ n_timer' = 1
              /\ SelectTimedOut \/ ReadWouldBlock
        /\ pc = "select" => n_timer = (IF FirstIteration THEN 0 ELSE 1)
        /\ (Dispatched \/ ButtonCalled \/ pc = "read") => n_timer = 0
        /\ (pc' = "timer" /\ pc # "timer")
           => \/ pc = "select" /\ SelectTimedOut'
              \/ pc = "read" /\ ReadWouldBlock' ]_vars

\* the press was drained and dispatched in the iteration whose Timer() call
\* has just returned
C15_Witness ==
    /\ pc = "select"
    /\ n_timer = 1
    /\ ReadWouldBlock
    /\ n_button = 1
    /\ last.at = now
    /\ m_btnPre = last.type

(***************************************************************************)
(* C16: a button that became pending at time t, with no press reported     *)
(* afterwards, is written as a single click no later than t + 300 ms +     *)
(* 20 ms, given that the readiness wait returns within 20 ms and the drain *)
(* takes no time, whatever wheel, middle and motion reports wake the loop  *)
(* in between.  Stated per iteration, with the button pending: a select    *)
(* that returns within 20 ms of the last clock reading returns less than   *)
(* 320 ms after the arming, and a Timer() call that reads the clock where  *)
(* it stood before (no time went by since) writes the single click if      *)
(* 300 ms or more have passed since the arming.                            *)
(***************************************************************************)
LatencyUsec == WindowUsec + SelectTimeoutUsec

Selected == pc = "select" /\ pc' # "select"

\* the hypotheses of the claim, for the step taken
WaitWithinTimeout == now' - now <= SelectTimeoutUsec
DrainTakesNoTime == now' = now

C16_SingleClickLatency ==
    [][ /\ (Selected /\ m_btnPre # BTN_NULL /\ WaitWithinTimeout)
           => now' - last.at < LatencyUsec
        /\ (TimerCalled /\ m_btnPre # BTN_NULL /\ DrainTakesNoTime
                /\ now' - last.at >= WindowUsec)
           => /\ m_btnPre' = BTN_NULL
              /\ out' = Append(out, SingleLine(last.type)) ]_vars

\* the single click was written in the last 2 ms before the bound, after a
\* report that is no press had woken the loop
C16_Witness ==
    /\ pc = "select"
    /\ n_timer = 1
    /\ ReadWouldBlock
    /\ n_button = 1
    /\ Idle
    /\ Clicks(out) = <<SingleLine(last.type)>>
    /\ Between({"9", "0", "p"}) # {}
    /\ now - last.at > LatencyUsec - 2000
    /\ now - last.at < LatencyUsec

(***************************************************************************)
(* C17 as stated: a press dispatched 300 ms or more after the press that   *)
(* armed the timer is never classified together with it; the first press   *)
(* is a single click and no double click or quit is written for the pair,  *)
(* also when the second press is drained before the Timer() call that      *)
(* would have seen the expiry.  Button() never reads the clock against     *)
(* m_tv_cur, so this is violated: the second press is paired with the      *)
(* first whenever no Timer() call has fired in between.                    *)
(***************************************************************************)
LatePress ==
    /\ ButtonCalled
    /\ n_button > 0
    /\ last.idle
    /\ last'.at - last.at >= WindowUsec

C17_Original ==
    [][ LatePress
        => /\ Between({"<", ">"}) = {SingleLine(last.type)}
           /\ Clicks(Since(out', Len(out))) = <<>> ]_vars

(***************************************************************************)
(* C18: a dispatched report triggers at most one action, chosen in the     *)
(* order wheel, left, right, middle: at most one call of Button and at     *)
(* most one line; a report with a wheel delta calls no Button; a report    *)
(* without motion with left and right both set is passed to Button as      *)
(* BTN_LEFT only, so from Idle it arms the left button and writes no quit; *)
(* right goes before middle.                                               *)
(***************************************************************************)
Still(d) == WireX(d) = 0 /\ WireY(d) = 0 /\ WireZ(d) = 0
Written == Since(out', Len(out))

OneAction ==
    /\ n_button' \in {n_button, n_button + 1}
    /\ Len(Written) <= 1
    /\ ButtonCalled => Clicks(Written) = Written
    /\ ~ButtonCalled => Clicks(Written) = <<>> /\ UNCHANGED classifier

Priority(d) ==
    IF WireZ(d) # 0 THEN ~ButtonCalled /\ Written \in {<<"9">>, <<"0">>}
    ELSE IF ~Still(d) THEN ~ButtonCalled /\ Written = <<>>
    ELSE IF WireLeft(d) THEN CallsButton(BTN_LEFT)
    ELSE IF WireRight(d) THEN CallsButton(BTN_RIGHT)
    ELSE IF WireMiddle(d) THEN ~ButtonCalled /\ Written = <<"p">>
    ELSE ~ButtonCalled /\ Written = <<>>

BothButtons(d) == WireLeft(d) /\ WireRight(d) /\ Still(d)

C18_OneActionByPriority ==
    [][ Dispatched
        => /\ OneAction
           /\ Priority(data)
           /\ (BothButtons(data) /\ Idle)
              => /\ m_btnPre' = BTN_LEFT
                 /\ Written = <<>>
                 /\ pc' = "read" ]_vars

\* a report with left and right set was dispatched from Idle: the left
\* button is pending and nothing was written
C18_Witness ==
    /\ pc = "read"
    /\ BothButtons(data)
    /\ n_button = 1
    /\ last.idle
    /\ last.type = BTN_LEFT
    /\ m_btnPre = BTN_LEFT
    /\ out = <<>>

(***************************************************************************)
(* C19: after every completed call of Button() and Timer() a pending       *)
(* button has its timer armed (m_btnPre # BTN_NULL implies m_bTimer);      *)
(* m_tv_cur is written only by the call of Button() that leaves Idle and   *)
(* is not refreshed while a button is pending; so a pending press does not *)
(* outlive the first Timer() call whose clock reading is 300 ms or more    *)
(* after the arming: when the loop is back at select with a button         *)
(* pending, the interval in milliseconds is below 300.                     *)
(***************************************************************************)
Pending == m_btnPre # BTN_NULL

C19_PendingHasDeadline ==
    [][ /\ Pending => m_bTimer
        /\ Pending' => m_bTimer'
        /\ m_tv_cur' # m_tv_cur
           => /\ ButtonCalled
              /\ ~Pending /\ Pending'
              /\ Usec(m_tv_cur') = now'
        /\ (Pending /\ Pending' /\ m_btnPre' = m_btnPre /\ ~ButtonCalled)
           => m_tv_cur' = m_tv_cur
        /\ (Pending /\ ButtonCalled) => ~Pending' /\ m_tv_cur' = m_tv_cur
        /\ (pc' = "select" /\ Pending') => IntervalMs' < TimeoutMs ]_vars

\* a press armed 299 ms ago (in clock milliseconds) is still pending after
\* a wheel report and a Timer() call, with the arming time it got
C19_Witness ==
    /\ pc = "select"
    /\ n_timer = 1
    /\ Pending /\ m_bTimer
    /\ Usec(m_tv_cur) = last.at
    /\ last.at < now
    /\ IntervalMs = TimeoutMs - 1
    /\ Between({"9", "0"}) # {}

(***************************************************************************)
(* C20: every call of Button() is accounted for by exactly one             *)
(* classification: the number of calls equals the single clicks written    *)
(* plus twice the double clicks plus twice the quits, plus one if a button *)
(* is pending; and a press passed to Button() while Idle, such as a third  *)
(* press right after a double click, is pending as long as no click line   *)
(* has been written after it.                                              *)
(***************************************************************************)
IsSingle(line) == line \in {"<", ">"}
IsDouble(line) == line \in {"z", "x"}
IsQuit(line) == line = "q"
Count(lines, Is(_)) == Cardinality({i \in 1..Len(lines) : Is(lines[i])})

Accounted ==
    n_button = Count(out, IsSingle) + 2 * Count(out, IsDouble)
               + 2 * Count(out, IsQuit)
               + (IF m_btnPre # BTN_NULL THEN 1 ELSE 0)

C20_PressesAccounted ==
    /\ Accounted
    /\ (n_button > 0 /\ last.idle /\ Clicks(Since(out, last.mark)) = <<>>)
       => m_btnPre = last.type

\* the third press, made right after the double click, is pending
C20_Witness ==
    /\ n_button = 3
    /\ Clicks(out) = <<DoubleLine(last.type)>>
    /\ out[Len(out)] = DoubleLine(last.type)
    /\ last.mark = Len(out)
    /\ last.idle
    /\ m_btnPre = last.type

====
